---- MODULE Spec2Model ----
(***************************************************************************)
(* A model of emc2.simulator.main.make_simulated_data, the orchestrator    *)
(* of the EMC^2 subcolumn generator and radar/lidar forward simulator.     *)
(*                                                                         *)
(* One behaviour is one caller: it picks a model (the Atmospheric State),  *)
(* an instrument and the arguments, calls make_simulated_data, and may     *)
(* call it again on the returned model with the same arguments.  Each      *)
(* action is one statement group of the function; every call the           *)
(* function makes on the model is appended to `log` with the arguments     *)
(* it is given, every print to `stdout`.                                   *)
(***************************************************************************)
EXTENDS Integers, Sequences, FiniteSets

VARIABLES
    pc,            \* position in make_simulated_data ("idle" before a call)
    call,          \* number of calls of make_simulated_data started so far
    model,         \* the model object (Atmospheric State)
    instrument,    \* the instrument object (Instrument Descriptor)
    args,          \* the named arguments of the call
    kwargs,        \* the **kwargs dictionary, shrinking as options are popped
    locals,        \* the local variables of the running call
    log,           \* calls made on the model during this call, in order
    stdout,        \* messages printed during this call, in order
    raised,        \* exception raised by this call ("None" if none)
    entry_model,   \* the model as it was when this call started
    first_model    \* the model as the first call returned it

vars == <<pc, call, model, instrument, args, kwargs, locals, log, stdout,
          raised, entry_model, first_model>>

-----------------------------------------------------------------------------
(* Bounds of the model.                                                    *)

\* longest list of hydrometeor classes (keys of model.conv_frac_names)
MaxHyd == 2
\* number of subcolumns (N_columns)
NSub == 2
\* number of successive calls of make_simulated_data on the same model
MaxCalls == 2

-----------------------------------------------------------------------------
(* Values.                                                                 *)

\* np.nan, the missing-data value finalize_subcol_fields writes
NaN == -1

\* the default reference range of calc_radar_Ze_min
DefaultRefRng == 1000

\* Python's None
None == "None"

\* str.lower() on the strings the model uses
Lower(s) ==
    CASE s = "RADAR" -> "radar"
      [] s = "Lidar" -> "lidar"
      [] s = "P3" -> "p3"
      [] OTHER -> s

\* dict.pop(key, default): the value
Pop(kw, key, default) == IF key \in DOMAIN kw THEN kw[key] ELSE default

\* dict.pop(key, default): the dictionary that is left
Popped(kw, keys) == [k \in (DOMAIN kw) \ keys |-> kw[k]]

\* the union of two keyword dictionaries with disjoint keys
KwJoin(a, b) ==
    [k \in (DOMAIN a) \cup (DOMAIN b) |-> IF k \in DOMAIN a THEN a[k] ELSE b[k]]

Min(a, b) == IF a < b THEN a ELSE b

-----------------------------------------------------------------------------
(* The objects the caller passes in.                                       *)

\* the order in which model.conv_frac_names lists the hydrometeor classes
HydOrder == <<"pl", "cl", "pi", "ci">>

\* the key lists of model.conv_frac_names the model considers
HydLists == {SubSeq(HydOrder, 1, n) : n \in 1..Min(MaxHyd, Len(HydOrder))}

\* the convective states the loops of make_simulated_data go through
IsConvList_Always(process_conv) == <<FALSE, TRUE>>

IsConvList(process_conv) == IF process_conv THEN <<FALSE, TRUE>> ELSE <<FALSE>>

\* the subcolumn mass/number fields of a model: one per class and regime
SubColKeys(hyd, process_conv) ==
    {<<hyd[i], c>> : i \in 1..Len(hyd),
                     c \in IF process_conv THEN BOOLEAN ELSE {FALSE}}

\* a subcolumn field: the first n_on subcolumns hold mass, the others zero
Realization(n_on) == [i \in 1..NSub |-> IF i <= n_on THEN 1 ELSE 0]

\* the stages a subcolumn generation applies to a model
GenerationOps(process_conv) ==
    {"set_stratiform_sub_col_frac", "set_precip_sub_col_frac", "set_q_n"}
        \cup (IF process_conv THEN {"set_convective_sub_col_frac"} ELSE {})

\* a model as the loader returns it (populated = FALSE) or as an earlier
\* subcolumn generation left it (populated = TRUE)
MakeModel(hyd, process_conv, mcphys, sd, n_on, populated) ==
    [conv_frac_names |-> hyd,
     process_conv |-> process_conv,
     mcphys_scheme |-> mcphys,
     stacked_time_dim |-> sd,
     stacked |-> (sd # None),
     n_on |-> n_on,
     sub_col |-> IF populated
                 THEN [k \in SubColKeys(hyd, process_conv) |-> Realization(n_on)]
                 ELSE <<>>,
     applied |-> IF populated THEN GenerationOps(process_conv) ELSE {}]

MakeInstrument(class) ==
    [instrument_class |-> class, OD_from_sfc |-> TRUE, ext_OD |-> 10, eta |-> 7]

InstrumentClasses == {"RADAR", "Lidar", "sonar"}

\* the arguments of a call: the named flags and the keyword options
MakeArgs(classify, unstack, skip, finalize, width, only, kw) ==
    [N_columns |-> NSub,
     do_classify |-> classify,
     unstack_dims |-> unstack,
     skip_subcol_gen |-> skip,
     finalize_fields |-> finalize,
     calc_spectral_width |-> width,
     subcol_gen_only |-> only,
     kw |-> kw]

\* Calls that vary the named flags, the instrument and the model.
FlagCalls ==
    {<<MakeModel(hyd, conv, "morrison", sd, n_on, populated),
       MakeInstrument(class),
       MakeArgs(dc, ud, skip, fin, TRUE, only, kw)>> :
        hyd \in HydLists, conv \in BOOLEAN,
        sd \in {None, "time_lat_lon"}, n_on \in 0..NSub, populated \in BOOLEAN,
        class \in InstrumentClasses,
        dc \in BOOLEAN, ud \in BOOLEAN, skip \in BOOLEAN, fin \in BOOLEAN,
        only \in BOOLEAN,
        kw \in {<<>>, [convert_zeros_to_nan |-> TRUE]}}

\* Calls that vary the options deciding the ice scattering treatment.
MieCalls ==
    {<<MakeModel(hyd, conv, mcphys, None, 1, TRUE),
       MakeInstrument(class),
       MakeArgs(dc, FALSE, TRUE, FALSE, TRUE, only, KwJoin(url, mie))>> :
        hyd \in HydLists, conv \in BOOLEAN, mcphys \in {"morrison", "P3"},
        class \in InstrumentClasses, dc \in BOOLEAN, only \in BOOLEAN,
        url \in {<<>>, [use_rad_logic |-> TRUE], [use_rad_logic |-> FALSE]},
        mie \in {<<>>, [mie_for_ice |-> TRUE], [mie_for_ice |-> FALSE]}}

\* Calls that give the remaining options.
OptionCalls ==
    {<<MakeModel(hyd, conv, "morrison", None, 1, FALSE),
       MakeInstrument(class),
       MakeArgs(TRUE, FALSE, FALSE, FALSE, csw, FALSE, kw)>> :
        hyd \in HydLists, conv \in BOOLEAN, class \in InstrumentClasses,
        csw \in BOOLEAN,
        kw \in {[ref_rng |-> 2000],
                [ext_OD |-> 2, eta |-> 5],
                [OD_from_sfc |-> FALSE],
                [parallel |-> FALSE, chunk |-> 10],
                [hyd_types |-> <<"cl">>, mask_height_rng |-> <<0, 4000>>,
                 use_empiric_calc |-> TRUE],
                [ref_rng |-> 2000, ext_OD |-> 2, eta |-> 5, dummy_kw |-> 1]}}

Calls == FlagCalls \cup MieCalls \cup OptionCalls

-----------------------------------------------------------------------------
(* make_simulated_data, lines 59-92: the options are popped from kwargs.   *)

\* the options popped on entry, whatever the instrument
EntryOptions ==
    {"use_rad_logic", "OD_from_sfc", "parallel", "chunk", "convert_zeros_to_nan",
     "mask_height_rng", "hyd_types", "mie_for_ice", "use_empiric_calc"}

\* MieForIce without the branch of the "p3" scheme
MieForIce_NoP3(kw, use_rad_logic, mcphys_scheme) ==
    IF "mie_for_ice" \in DOMAIN kw
    THEN [conv |-> kw["mie_for_ice"], strat |-> kw["mie_for_ice"]]
    ELSE IF use_rad_logic
         THEN [conv |-> FALSE, strat |-> FALSE]
         ELSE [conv |-> FALSE, strat |-> TRUE]

MieForIce_SameInBothRegimes(kw, use_rad_logic, mcphys_scheme) ==
    IF "mie_for_ice" \in DOMAIN kw
    THEN [conv |-> kw["mie_for_ice"], strat |-> kw["mie_for_ice"]]
    ELSE IF use_rad_logic
         THEN [conv |-> FALSE, strat |-> FALSE]
         ELSE IF mcphys_scheme = "p3"
              THEN [conv |-> FALSE, strat |-> FALSE]
              ELSE [conv |-> TRUE, strat |-> TRUE]

\* lines 81-91: the ice scattering treatment of each regime
MieForIce(kw, use_rad_logic, mcphys_scheme) ==
    IF "mie_for_ice" \in DOMAIN kw
    THEN [conv |-> kw["mie_for_ice"], strat |-> kw["mie_for_ice"]]
    ELSE IF use_rad_logic
         THEN [conv |-> FALSE, strat |-> FALSE]
         ELSE IF mcphys_scheme = "p3"
              THEN [conv |-> FALSE, strat |-> FALSE]
              ELSE [conv |-> FALSE, strat |-> TRUE]

\* lines 59-92: the local variables once the options are popped
EntryLocals(m, inst, kw) ==
    [hydrometeor_classes |-> m.conv_frac_names,
     process_conv |-> m.process_conv,
     mcphys_scheme |-> Lower(m.mcphys_scheme),
     inst_class |-> Lower(inst.instrument_class),
     use_rad_logic |-> Pop(kw, "use_rad_logic", TRUE),
     OD_from_sfc |-> Pop(kw, "OD_from_sfc", inst.OD_from_sfc),
     parallel |-> Pop(kw, "parallel", TRUE),
     chunk |-> Pop(kw, "chunk", None),
     convert_zeros_to_nan |-> Pop(kw, "convert_zeros_to_nan", FALSE),
     mask_height_rng |-> Pop(kw, "mask_height_rng", None),
     hyd_types |-> Pop(kw, "hyd_types", None),
     mie_for_ice |-> MieForIce(kw, Pop(kw, "use_rad_logic", TRUE),
                               Lower(m.mcphys_scheme)),
     use_empiric_calc |-> Pop(kw, "use_empiric_calc", FALSE),
     precip_types |-> <<>>,
     ref_rng |-> None,
     ext_OD |-> None,
     eta |-> None,
     i |-> 1,
     j |-> 1]

-----------------------------------------------------------------------------
(* Control flow of make_simulated_data: which statement comes next.        *)

\* lines 203-204: the unstacking test, reached after the finalize step
AfterFinalize(a, m) ==
    IF (m.stacked_time_dim # None) /\ a.unstack_dims
    THEN "unstack_time_lat_lon"
    ELSE "return"

\* AfterSimulator with the unstacking nested under the finalize test
AfterSimulator_UnstackUnderFinalize(a, m) ==
    IF a.finalize_fields THEN "finalize_subcol_fields" ELSE "return"

\* AfterSimulator with finalize_fields not looked at
AfterSimulator_AlwaysFinalizes(a, m) == "finalize_subcol_fields"

\* line 198: the finalize test, reached when the simulator part is over
AfterSimulator(a, m) ==
    IF a.finalize_fields THEN "finalize_subcol_fields" ELSE AfterFinalize(a, m)

\* SubcolBranch with skip_subcol_gen not looked at
SubcolBranch_IgnoresSkip(a) == "create"

\* line 94: whether the subcolumn generator is skipped
SubcolBranch(a) == IF a.skip_subcol_gen THEN "skip" ELSE "create"

\* SimulatorBranch with the final else taken for a lidar: nothing is raised
SimulatorBranch_LidarByDefault(a, inst_class) ==
    IF a.subcol_gen_only THEN "subcol_gen_only"
    ELSE IF inst_class = "radar" THEN "radar"
    ELSE "lidar"

\* SimulatorBranch with subcol_gen_only not looked at
SimulatorBranch_IgnoresSubcolGenOnly(a, inst_class) ==
    IF inst_class = "radar" THEN "radar"
    ELSE IF inst_class = "lidar" THEN "lidar"
    ELSE "raise"

\* lines 137, 142, 168, 192: the branch taken after the subcolumn part
SimulatorBranch(a, inst_class) ==
    IF a.subcol_gen_only THEN "subcol_gen_only"
    ELSE IF inst_class = "radar" THEN "radar"
    ELSE IF inst_class = "lidar" THEN "lidar"
    ELSE "raise"

\* FirstGenerator without the convective loop
FirstGenerator_SkipsConvective(loc) == "set_stratiform_sub_col_frac"

\* lines 98-107: the first generator called once generation has started
FirstGenerator(loc) ==
    IF loc.process_conv /\ Len(loc.hydrometeor_classes) >= 1
    THEN "set_convective_sub_col_frac"
    ELSE "set_stratiform_sub_col_frac"

\* lines 114-126: what follows the last precipitation fraction call
AfterPrecipFrac(loc) ==
    IF Len(loc.hydrometeor_classes) >= 1 THEN "set_q_n" ELSE "simulator"

\* lines 152, 159: what follows the stratiform radar moments
AfterRadarStrat_SkipsConv(loc) == "calc_radar_Ze_min"

AfterRadarStrat(loc) ==
    IF loc.process_conv THEN "calc_radar_moments_conv" ELSE "calc_radar_Ze_min"

\* lines 162, 198: what follows calc_total_reflectivity
AfterTotalReflectivity_AlwaysClassifies(a, m) == "radar_classify_phase"

AfterTotalReflectivity(a, m) ==
    IF a.do_classify THEN "radar_classify_phase" ELSE AfterSimulator(a, m)

\* lines 177, 183: what follows the stratiform lidar moments
AfterLidarStrat(loc) ==
    IF loc.process_conv THEN "calc_lidar_moments_conv" ELSE "calc_total_alpha_beta"

\* lines 186, 198: what follows calc_LDR_and_ext
AfterLDRAndExt(a, m) ==
    IF a.do_classify THEN "lidar_classify_phase" ELSE AfterSimulator(a, m)

-----------------------------------------------------------------------------
(* What the calls do to the model.                                         *)

\* any stage: the model records that the stage was applied to it
Applied(m, op) == [m EXCEPT !.applied = @ \cup {op}]

\* set_q_n: the subcolumn mass/number field of the class and regime is
\* written, the "on" subcolumns holding the mass and the others zero
SetQNField(m, hyd_type, is_conv) ==
    [m EXCEPT !.sub_col =
        [k \in (DOMAIN @) \cup {<<hyd_type, is_conv>>} |->
            IF k = <<hyd_type, is_conv>> THEN Realization(m.n_on) ELSE @[k]]]

\* model.finalize_subcol_fields(): absolute 0 values of the subcolumn fields
\* are set to np.nan (lines 43-45)
FinalizeSubcolFields(m) ==
    [m EXCEPT !.sub_col =
        [k \in DOMAIN @ |-> [i \in DOMAIN @[k] |->
            IF @[k][i] = 0 THEN NaN ELSE @[k][i]]]]

\* model.unstack_time_lat_lon(): the stacked dimension is split again into
\* time, lat and lon; the marker stacked_time_dim is left as it is
UnstackTimeLatLon(m) == [m EXCEPT !.stacked = FALSE]

\* line 111: the hydrometeor classes without the cloud-only classes
PrecipTypes_All(hyd) == hyd

PrecipTypes(hyd) ==
    SelectSeq(hyd, LAMBDA h : h \notin {"cl", "ci"})

\* lines 128-131: the flag of the cloud liquid treatment
QcFlag_AnyRegime(hyd_type, is_conv) == hyd_type = "cl"

QcFlag(hyd_type, is_conv) == (hyd_type = "cl") /\ ~is_conv

-----------------------------------------------------------------------------
(* The state machine.                                                      *)

Init ==
    /\ \E c \in Calls :
        /\ model = c[1]
        /\ instrument = c[2]
        /\ args = c[3]
        /\ entry_model = c[1]
        /\ first_model = c[1]
    /\ pc = "idle"
    /\ call = 0
    /\ kwargs = <<>>
    /\ locals = <<>>
    /\ log = <<>>
    /\ stdout = <<>>
    /\ raised = None

\* one call made on the model: it is logged and the model is changed by it
Invoke(rec, m, loc, next) ==
    /\ log' = Append(log, rec)
    /\ model' = Applied(m, rec.op)
    /\ locals' = loc
    /\ pc' = next

\* the caller calls make_simulated_data, the first time or again with the
\* same arguments on the model a call returned; lines 59-92
Call ==
    /\ pc \in {"idle", "done"}
    /\ call < MaxCalls
    /\ call' = call + 1
    /\ locals' = EntryLocals(model, instrument, args.kw)
    /\ kwargs' = Popped(args.kw, EntryOptions)
    /\ entry_model' = model
    /\ log' = <<>>
    /\ stdout' = <<>>
    /\ raised' = None
    /\ pc' = "subcol"
    /\ UNCHANGED <<model, instrument, args, first_model>>

\* lines 94-95
SkipSubcolGen ==
    /\ pc = "subcol"
    /\ SubcolBranch(args) = "skip"
    /\ stdout' = Append(stdout, "Skipping subcolumn generator")
    /\ pc' = "simulator"
    /\ UNCHANGED <<call, model, instrument, args, kwargs, locals, log, raised,
                   entry_model, first_model>>

\* lines 96-104
CreateSubcolumns ==
    /\ pc = "subcol"
    /\ SubcolBranch(args) = "create"
    /\ stdout' = IF locals.process_conv
                 THEN Append(stdout, "## Creating subcolumns...")
                 ELSE stdout \o <<"## Creating subcolumns...",
                                  "No convective processing">>
    /\ pc' = FirstGenerator(locals)
    /\ UNCHANGED <<call, model, instrument, args, kwargs, locals, log, raised,
                   entry_model, first_model>>

\* lines 99-102, one turn of the loop
SetConvectiveSubColFrac ==
    /\ pc = "set_convective_sub_col_frac"
    /\ LET hyd_type == locals.hydrometeor_classes[locals.i]
           last == locals.i = Len(locals.hydrometeor_classes)
       IN Invoke([op |-> "set_convective_sub_col_frac",
                  hyd_type |-> hyd_type,
                  N_columns |-> args.N_columns,
                  use_rad_logic |-> locals.use_rad_logic],
                 model,
                 [locals EXCEPT !.i = IF last THEN 1 ELSE @ + 1],
                 IF last THEN "set_stratiform_sub_col_frac" ELSE pc)
    /\ UNCHANGED <<call, instrument, args, kwargs, stdout, raised, entry_model,
                   first_model>>

\* lines 107-111
SetStratiformSubColFrac ==
    /\ pc = "set_stratiform_sub_col_frac"
    /\ Invoke([op |-> "set_stratiform_sub_col_frac",
               use_rad_logic |-> locals.use_rad_logic,
               N_columns |-> args.N_columns,
               parallel |-> locals.parallel,
               chunk |-> locals.chunk],
              model,
              [locals EXCEPT !.precip_types = PrecipTypes(locals.hydrometeor_classes),
                             !.j = 1],
              "set_precip_sub_col_frac")
    /\ UNCHANGED <<call, instrument, args, kwargs, stdout, raised, entry_model,
                   first_model>>

\* lines 114-121, one turn of the loop
SetPrecipSubColFrac ==
    /\ pc = "set_precip_sub_col_frac"
    /\ LET is_conv == IsConvList(locals.process_conv)[locals.j]
           last == locals.j = Len(IsConvList(locals.process_conv))
           common == [op |-> "set_precip_sub_col_frac",
                      is_conv |-> is_conv,
                      use_rad_logic |-> locals.use_rad_logic,
                      parallel |-> locals.parallel,
                      chunk |-> locals.chunk]
       IN Invoke(IF ~is_conv
                 THEN KwJoin(common, [precip_types |-> locals.precip_types])
                 ELSE common,
                 model,
                 [locals EXCEPT !.j = IF last THEN 1 ELSE @ + 1, !.i = 1],
                 IF last THEN AfterPrecipFrac(locals) ELSE pc)
    /\ UNCHANGED <<call, instrument, args, kwargs, stdout, raised, entry_model,
                   first_model>>

\* lines 124-134, one turn of the inner loop
SetQN ==
    /\ pc = "set_q_n"
    /\ LET hyd_type == locals.hydrometeor_classes[locals.i]
           is_conv == IsConvList(locals.process_conv)[locals.j]
           last_j == locals.j = Len(IsConvList(locals.process_conv))
           last_i == locals.i = Len(locals.hydrometeor_classes)
       IN Invoke([op |-> "set_q_n",
                  hyd_type |-> hyd_type,
                  is_conv |-> is_conv,
                  qc_flag |-> QcFlag(hyd_type, is_conv),
                  use_rad_logic |-> locals.use_rad_logic,
                  parallel |-> locals.parallel,
                  chunk |-> locals.chunk],
                 SetQNField(model, hyd_type, is_conv),
                 [locals EXCEPT !.j = IF last_j THEN 1 ELSE @ + 1,
                                !.i = IF last_j /\ ~last_i THEN @ + 1 ELSE @],
                 IF last_j /\ last_i THEN "simulator" ELSE pc)
    /\ UNCHANGED <<call, instrument, args, kwargs, stdout, raised, entry_model,
                   first_model>>

\* lines 137-138
SubcolGenOnly ==
    /\ pc = "simulator"
    /\ SimulatorBranch(args, locals.inst_class) = "subcol_gen_only"
    /\ stdout' = Append(stdout, "User chose to return only subcolumn generation")
    /\ pc' = AfterSimulator(args, model)
    /\ UNCHANGED <<call, model, instrument, args, kwargs, locals, log, raised,
                   entry_model, first_model>>

\* lines 142-145
BeginRadar ==
    /\ pc = "simulator"
    /\ SimulatorBranch(args, locals.inst_class) = "radar"
    /\ stdout' = Append(stdout, "Generating radar moments...")
    /\ locals' = [locals EXCEPT !.ref_rng = Pop(kwargs, "ref_rng", DefaultRefRng)]
    /\ kwargs' = Popped(kwargs, {"ref_rng"})
    /\ pc' = "calc_radar_moments_strat"
    /\ UNCHANGED <<call, model, instrument, args, log, raised, entry_model,
                   first_model>>

\* the arguments of a calc_radar_moments call (lines 147-151, 153-157)
RadarMomentsCall(is_conv, mie) ==
    [op |-> "calc_radar_moments",
     is_conv |-> is_conv,
     OD_from_sfc |-> locals.OD_from_sfc,
     hyd_types |-> locals.hyd_types,
     parallel |-> locals.parallel,
     chunk |-> locals.chunk,
     mie_for_ice |-> mie,
     use_rad_logic |-> locals.use_rad_logic,
     use_empiric_calc |-> locals.use_empiric_calc,
     calc_spectral_width |-> args.calc_spectral_width,
     kwargs |-> kwargs]

\* lines 147-151
CalcRadarMomentsStrat ==
    /\ pc = "calc_radar_moments_strat"
    /\ Invoke(RadarMomentsCall(FALSE, locals.mie_for_ice.strat), model, locals,
              AfterRadarStrat(locals))
    /\ UNCHANGED <<call, instrument, args, kwargs, stdout, raised, entry_model,
                   first_model>>

\* lines 152-157
CalcRadarMomentsConv ==
    /\ pc = "calc_radar_moments_conv"
    /\ Invoke(RadarMomentsCall(TRUE, locals.mie_for_ice.conv), model, locals,
              "calc_radar_Ze_min")
    /\ UNCHANGED <<call, instrument, args, kwargs, stdout, raised, entry_model,
                   first_model>>

\* line 159
CalcRadarZeMin ==
    /\ pc = "calc_radar_Ze_min"
    /\ Invoke([op |-> "calc_radar_Ze_min", ref_rng |-> locals.ref_rng],
              model, locals, "calc_total_reflectivity")
    /\ UNCHANGED <<call, instrument, args, kwargs, stdout, raised, entry_model,
                   first_model>>

\* line 160
CalcTotalReflectivity ==
    /\ pc = "calc_total_reflectivity"
    /\ Invoke([op |-> "calc_total_reflectivity", detect_mask |-> TRUE],
              model, locals, AfterTotalReflectivity(args, model))
    /\ UNCHANGED <<call, instrument, args, kwargs, stdout, raised, entry_model,
                   first_model>>

\* lines 162-165
RadarClassifyPhase ==
    /\ pc = "radar_classify_phase"
    /\ Invoke([op |-> "radar_classify_phase",
               mask_height_rng |-> locals.mask_height_rng,
               convert_zeros_to_nan |-> locals.convert_zeros_to_nan],
              model, locals, AfterSimulator(args, model))
    /\ UNCHANGED <<call, instrument, args, kwargs, stdout, raised, entry_model,
                   first_model>>

\* lines 168-171
BeginLidar ==
    /\ pc = "simulator"
    /\ SimulatorBranch(args, locals.inst_class) = "lidar"
    /\ stdout' = Append(stdout, "Generating lidar moments...")
    /\ locals' = [locals EXCEPT !.ext_OD = Pop(kwargs, "ext_OD", instrument.ext_OD),
                                !.eta = Pop(kwargs, "eta", instrument.eta)]
    /\ kwargs' = Popped(kwargs, {"ext_OD", "eta"})
    /\ pc' = "calc_lidar_moments_strat"
    /\ UNCHANGED <<call, model, instrument, args, log, raised, entry_model,
                   first_model>>

LidarMomentsCall_InstrumentEta(is_conv, mie) ==
    [op |-> "calc_lidar_moments",
     is_conv |-> is_conv,
     OD_from_sfc |-> locals.OD_from_sfc,
     hyd_types |-> locals.hyd_types,
     parallel |-> locals.parallel,
     eta |-> instrument.eta,
     chunk |-> locals.chunk,
     mie_for_ice |-> mie,
     use_rad_logic |-> locals.use_rad_logic,
     use_empiric_calc |-> locals.use_empiric_calc,
     kwargs |-> kwargs]

\* the arguments of a calc_lidar_moments call (lines 172-176, 178-182)
LidarMomentsCall(is_conv, mie) ==
    [op |-> "calc_lidar_moments",
     is_conv |-> is_conv,
     OD_from_sfc |-> locals.OD_from_sfc,
     hyd_types |-> locals.hyd_types,
     parallel |-> locals.parallel,
     eta |-> locals.eta,
     chunk |-> locals.chunk,
     mie_for_ice |-> mie,
     use_rad_logic |-> locals.use_rad_logic,
     use_empiric_calc |-> locals.use_empiric_calc,
     kwargs |-> kwargs]

\* lines 172-176
CalcLidarMomentsStrat ==
    /\ pc = "calc_lidar_moments_strat"
    /\ Invoke(LidarMomentsCall(FALSE, locals.mie_for_ice.strat), model, locals,
              AfterLidarStrat(locals))
    /\ UNCHANGED <<call, instrument, args, kwargs, stdout, raised, entry_model,
                   first_model>>

\* lines 177-182
CalcLidarMomentsConv ==
    /\ pc = "calc_lidar_moments_conv"
    /\ Invoke(LidarMomentsCall(TRUE, locals.mie_for_ice.conv), model, locals,
              "calc_total_alpha_beta")
    /\ UNCHANGED <<call, instrument, args, kwargs, stdout, raised, entry_model,
                   first_model>>

\* line 183
CalcTotalAlphaBeta ==
    /\ pc = "calc_total_alpha_beta"
    /\ Invoke([op |-> "calc_total_alpha_beta",
               OD_from_sfc |-> locals.OD_from_sfc,
               eta |-> locals.eta],
              model, locals, "calc_LDR_and_ext")
    /\ UNCHANGED <<call, instrument, args, kwargs, stdout, raised, entry_model,
                   first_model>>

\* line 184
CalcLDRAndExt ==
    /\ pc = "calc_LDR_and_ext"
    /\ Invoke([op |-> "calc_LDR_and_ext",
               ext_OD |-> locals.ext_OD,
               OD_from_sfc |-> locals.OD_from_sfc,
               hyd_types |-> locals.hyd_types],
              model, locals, AfterLDRAndExt(args, model))
    /\ UNCHANGED <<call, instrument, args, kwargs, stdout, raised, entry_model,
                   first_model>>

\* lines 186-188
LidarClassifyPhase ==
    /\ pc = "lidar_classify_phase"
    /\ Invoke([op |-> "lidar_classify_phase",
               convert_zeros_to_nan |-> locals.convert_zeros_to_nan],
              model, locals, "lidar_emulate_cosp_phase")
    /\ UNCHANGED <<call, instrument, args, kwargs, stdout, raised, entry_model,
                   first_model>>

\* lines 189-191
LidarEmulateCospPhase ==
    /\ pc = "lidar_emulate_cosp_phase"
    /\ Invoke([op |-> "lidar_emulate_cosp_phase",
               eta |-> locals.eta,
               OD_from_sfc |-> locals.OD_from_sfc,
               convert_zeros_to_nan |-> locals.convert_zeros_to_nan,
               hyd_types |-> locals.hyd_types],
              model, locals, AfterSimulator(args, model))
    /\ UNCHANGED <<call, instrument, args, kwargs, stdout, raised, entry_model,
                   first_model>>

\* lines 192-193: the call ends here, by the exception
RaiseValueError ==
    /\ pc = "simulator"
    /\ SimulatorBranch(args, locals.inst_class) = "raise"
    /\ raised' = "ValueError"
    /\ pc' = "raised"
    /\ UNCHANGED <<call, model, instrument, args, kwargs, locals, log, stdout,
                   entry_model, first_model>>

\* lines 198-199
Finalize ==
    /\ pc = "finalize_subcol_fields"
    /\ Invoke([op |-> "finalize_subcol_fields"],
              FinalizeSubcolFields(model), locals, AfterFinalize(args, model))
    /\ UNCHANGED <<call, instrument, args, kwargs, stdout, raised, entry_model,
                   first_model>>

\* lines 203-206
Unstack ==
    /\ pc = "unstack_time_lat_lon"
    /\ stdout' = Append(stdout, "Unstacking the stacked dimension")
    /\ Invoke([op |-> "unstack_time_lat_lon"],
              UnstackTimeLatLon(model), locals, "return")
    /\ UNCHANGED <<call, instrument, args, kwargs, raised, entry_model,
                   first_model>>

\* line 208: the model goes back to the caller
Return ==
    /\ pc = "return"
    /\ pc' = "done"
    /\ first_model' = IF call = 1 THEN model ELSE first_model
    /\ UNCHANGED <<call, model, instrument, args, kwargs, locals, log, stdout,
                   raised, entry_model>>

Next ==
    \/ Call
    \/ SkipSubcolGen
    \/ CreateSubcolumns
    \/ SetConvectiveSubColFrac
    \/ SetStratiformSubColFrac
    \/ SetPrecipSubColFrac
    \/ SetQN
    \/ SubcolGenOnly
    \/ BeginRadar
    \/ CalcRadarMomentsStrat
    \/ CalcRadarMomentsConv
    \/ CalcRadarZeMin
    \/ CalcTotalReflectivity
    \/ RadarClassifyPhase
    \/ BeginLidar
    \/ CalcLidarMomentsStrat
    \/ CalcLidarMomentsConv
    \/ CalcTotalAlphaBeta
    \/ CalcLDRAndExt
    \/ LidarClassifyPhase
    \/ LidarEmulateCospPhase
    \/ RaiseValueError
    \/ Finalize
    \/ Unstack
    \/ Return

Spec == Init /\ [][Next]_vars

-----------------------------------------------------------------------------
(* Calls that fail.  make_simulated_data has no try statement: an          *)
(* exception raised by a call it makes ends it.                            *)

\* the operation called at a position of the function
StageOf(p) ==
    CASE p \in {"calc_radar_moments_strat", "calc_radar_moments_conv"}
           -> "calc_radar_moments"
      [] p \in {"calc_lidar_moments_strat", "calc_lidar_moments_conv"}
           -> "calc_lidar_moments"
      [] OTHER -> p

\* the positions of the function at which it calls an operation on the model
StagePcs ==
    {"set_convective_sub_col_frac", "set_stratiform_sub_col_frac",
     "set_precip_sub_col_frac", "set_q_n",
     "calc_radar_moments_strat", "calc_radar_moments_conv", "calc_radar_Ze_min",
     "calc_total_reflectivity", "radar_classify_phase",
     "calc_lidar_moments_strat", "calc_lidar_moments_conv",
     "calc_total_alpha_beta", "calc_LDR_and_ext", "lidar_classify_phase",
     "lidar_emulate_cosp_phase", "finalize_subcol_fields", "unstack_time_lat_lon"}

\* the operations that are given the parallel and chunk arguments
ParallelOps ==
    {"set_stratiform_sub_col_frac", "set_precip_sub_col_frac", "set_q_n",
     "calc_radar_moments", "calc_lidar_moments"}

\* what can go wrong in a call: the operation itself, or one of its chunks
\* when it is run in parallel
FailureCauses(op, loc) ==
    {"stage"} \cup (IF op \in ParallelOps /\ loc.parallel THEN {"chunk"} ELSE {})

\* the exception a failing operation raises to make_simulated_data; a
\* failing chunk fails its operation
StageException(cause) == IF cause = "chunk" THEN "ChunkError" ELSE "StageError"

StageExceptions == {"StageError", "ChunkError"}

\* FailureTarget with the exception caught around the stages: the function
\* goes on to its last part
FailureTarget_Swallowed(a, m) == AfterSimulator(a, m)

\* where an exception raised by a call takes make_simulated_data: out of it
FailureTarget(a, m) == "raised"

\* a call made on the model fails: it is logged as failed, the model is left
\* as it was
StageFails ==
    /\ pc \in StagePcs
    /\ \E cause \in FailureCauses(StageOf(pc), locals) :
        /\ raised' = StageException(cause)
        /\ log' = Append(log, [op |-> StageOf(pc), failed |-> cause])
    /\ pc' = FailureTarget(args, model)
    /\ UNCHANGED <<call, model, instrument, args, kwargs, locals, stdout,
                   entry_model, first_model>>

NextFail ==
    \/ Next
    \/ StageFails

SpecFail == Init /\ [][NextFail]_vars

-----------------------------------------------------------------------------
(* Vocabulary of the properties.                                           *)

FractionOps ==
    {"set_convective_sub_col_frac", "set_stratiform_sub_col_frac",
     "set_precip_sub_col_frac"}

DistributionOps == {"set_q_n"}

MomentCalculators == {"calc_radar_moments", "calc_lidar_moments"}

MomentOps ==
    MomentCalculators \cup
    {"calc_radar_Ze_min", "calc_total_reflectivity", "calc_total_alpha_beta",
     "calc_LDR_and_ext"}

ClassifierOps ==
    {"radar_classify_phase", "lidar_classify_phase", "lidar_emulate_cosp_phase"}

\* the positions of the log holding a call of one of the operations
Positions(ops) == {i \in 1..Len(log) : log[i].op \in ops}

Invoked(ops) == Positions(ops) # {}

\* the call runs or has ended; before the first call nothing is to be said
Called == call >= 1

\* the call has returned the model to the caller
Returned == pc = "done"

\* the instrument class is one make_simulated_data has no simulator for
Unsupported == Lower(instrument.instrument_class) \notin {"radar", "lidar"}

\* positions of the function from which the call can no longer raise
ReturnPath == {"finalize_subcol_fields", "unstack_time_lat_lon", "return", "done"}

\* positions of the function inside a radar or lidar simulator
SimulatorPath ==
    {"calc_radar_moments_strat", "calc_radar_moments_conv", "calc_radar_Ze_min",
     "calc_total_reflectivity", "radar_classify_phase",
     "calc_lidar_moments_strat", "calc_lidar_moments_conv",
     "calc_total_alpha_beta", "calc_LDR_and_ext", "lidar_classify_phase",
     "lidar_emulate_cosp_phase"}

-----------------------------------------------------------------------------
(* C1 *)

-----------------------------------------------------------------------------
(* C2 *)

\* C2, as claimed: when the ValueError of an unsupported instrument class is
\* raised, no operation has been applied to the model, which is as it was
\* when the call started.
C2_RaisedBeforeAnyWrite ==
    (raised = "ValueError") => (log = <<>> /\ model = entry_model)

-----------------------------------------------------------------------------
(* C3 *)

\* the stage of an operation: fractions, distribution, moments, classification
Stage(op) ==
    IF op \in FractionOps THEN 1
    ELSE IF op \in DistributionOps THEN 2
    ELSE IF op \in MomentOps THEN 3
    ELSE 4

StagedOps == FractionOps \cup DistributionOps \cup MomentOps \cup ClassifierOps

\* every fraction call the model needs is in the log
FractionsComplete ==
    /\ Invoked({"set_stratiform_sub_col_frac"})
    /\ \A c \in (IF model.process_conv THEN BOOLEAN ELSE {FALSE}) :
        \E i \in Positions({"set_precip_sub_col_frac"}) : log[i].is_conv = c
    /\ model.process_conv =>
        \A h \in 1..Len(model.conv_frac_names) :
            \E i \in Positions({"set_convective_sub_col_frac"}) :
                log[i].hyd_type = model.conv_frac_names[h]

\* every set_q_n call the model needs is in the log
DistributionComplete ==
    \A k \in SubColKeys(model.conv_frac_names, model.process_conv) :
        \E i \in Positions({"set_q_n"}) : <<log[i].hyd_type, log[i].is_conv>> = k

\* every moment, total and detectability call of the instrument is in the log
MomentsComplete ==
    LET calc == IF Lower(instrument.instrument_class) = "radar"
                THEN "calc_radar_moments" ELSE "calc_lidar_moments"
        totals == IF Lower(instrument.instrument_class) = "radar"
                  THEN {"calc_radar_Ze_min", "calc_total_reflectivity"}
                  ELSE {"calc_total_alpha_beta", "calc_LDR_and_ext"}
    IN /\ \A c \in (IF model.process_conv THEN BOOLEAN ELSE {FALSE}) :
            \E i \in Positions({calc}) : log[i].is_conv = c
       /\ \A t \in totals : Invoked({t})

\* C3: in every call the stages follow each other strictly: no operation of a
\* stage is called after one of a later stage, the first set_q_n call finds
\* every fraction call made, the first moment call of a generating call finds
\* every set_q_n call made, and the first classifier call finds every moment,
\* total and detectability call made.
C3_StrictStageOrder ==
    /\ \A i, j \in Positions(StagedOps) :
        i < j => Stage(log[i].op) <= Stage(log[j].op)
    /\ Invoked(DistributionOps) => FractionsComplete
    /\ (Invoked(MomentOps) /\ ~args.skip_subcol_gen) => DistributionComplete
    /\ Invoked(ClassifierOps) => MomentsComplete

\* C3, witness: a call with convective processing went through all four stages
C3_Witness ==
    /\ Returned
    /\ model.process_conv
    /\ Invoked(FractionOps)
    /\ Invoked(DistributionOps)
    /\ Invoked(MomentOps)
    /\ Invoked(ClassifierOps)

-----------------------------------------------------------------------------
(* C4 *)

\* C4: in a call with subcol_gen_only no moment calculator, no total or
\* detectability operation and no classifier is called and none of them has
\* been applied to the model by the call; if the generator was not skipped,
\* the returned model has had set_q_n applied for every class and regime.
C4_SubcolGenOnlySkipsMoments ==
    (Called /\ args.subcol_gen_only) =>
        /\ ~Invoked(MomentOps \cup ClassifierOps)
        /\ model.applied \cap (MomentOps \cup ClassifierOps)
             = entry_model.applied \cap (MomentOps \cup ClassifierOps)
        /\ (Returned /\ ~args.skip_subcol_gen) =>
            /\ DistributionComplete
            /\ "set_q_n" \in model.applied

\* C4, witness: a generating call with subcol_gen_only has returned
C4_Witness ==
    /\ Returned
    /\ args.subcol_gen_only
    /\ ~args.skip_subcol_gen
    /\ Invoked({"set_q_n"})
    /\ Lower(instrument.instrument_class) = "radar"
    /\ args.do_classify

-----------------------------------------------------------------------------
(* C5 *)

\* the model holds the subcolumn fields of every class and regime
Populated(m) ==
    SubColKeys(m.conv_frac_names, m.process_conv) \subseteq DOMAIN m.sub_col

\* a value of a subcolumn field is as it was, or was an exact zero and is NaN
ZerosToNaN(old, new) ==
    /\ DOMAIN new = DOMAIN old
    /\ \A k \in DOMAIN old : \A i \in DOMAIN old[k] :
        \/ new[k][i] = old[k][i]
        \/ old[k][i] = 0 /\ new[k][i] = NaN

\* C5, as claimed: a call with skip_subcol_gen on a populated model, whatever
\* the other flags, leaves the subcolumn fields as they were.
C5_SkipPathNeverAltersSubcolumns ==
    (Called /\ args.skip_subcol_gen /\ Populated(entry_model)) =>
        model.sub_col = entry_model.sub_col

\* C5, amended: in calls with skip_subcol_gen on a populated model no
\* fraction generator and no set_q_n is called; with finalize_fields false
\* the subcolumn fields stay as they were; with finalize_fields true the
\* finalize step may turn their exact zeros into NaN and changes nothing
\* else; and the fields after a repeated call equal those after the first.
C5_SkipPathIdempotent ==
    (Called /\ args.skip_subcol_gen /\ Populated(entry_model)) =>
        /\ ~Invoked(FractionOps \cup DistributionOps)
        /\ ~args.finalize_fields => model.sub_col = entry_model.sub_col
        /\ args.finalize_fields => ZerosToNaN(entry_model.sub_col, model.sub_col)
        /\ (call >= 2 /\ Returned) => model.sub_col = first_model.sub_col

\* C5, witness: the second call with skip_subcol_gen and finalize_fields has
\* returned a model whose zeros the first call turned into NaN
C5_Witness ==
    /\ call = 2
    /\ Returned
    /\ args.skip_subcol_gen
    /\ args.finalize_fields
    /\ Populated(entry_model)
    /\ \E k \in DOMAIN model.sub_col : \E i \in 1..NSub : model.sub_col[k][i] = NaN

-----------------------------------------------------------------------------
(* C6 *)

\* use_rad_logic as the call has it: the option, True by default (line 67)
UseRadLogic == Pop(args.kw, "use_rad_logic", TRUE)

\* the microphysics scheme of the model is "p3" (lines 64, 88)
SchemeIsP3 == Lower(model.mcphys_scheme) = "p3"

\* every moment calculator call of the log was given mie_for_ice = False
NeverMie == \A i \in Positions(MomentCalculators) : log[i].mie_for_ice = FALSE

\* C6, as claimed: with use_rad_logic enabled or the scheme "p3", both
\* passes are given mie_for_ice = False, whatever else the caller supplied.
C6_RadLogicOrP3NeverMie ==
    (Called /\ (UseRadLogic \/ SchemeIsP3)) => NeverMie

\* C6, amended: with use_rad_logic enabled or the scheme "p3", and no
\* mie_for_ice option given by the caller, both passes are given
\* mie_for_ice = False.
C6_RadLogicOrP3NeverMieByDefault ==
    (Called /\ (UseRadLogic \/ SchemeIsP3) /\ "mie_for_ice" \notin DOMAIN args.kw)
        => NeverMie

\* C6, witness: a "p3" model without use_rad_logic and without the option
\* went through the stratiform and the convective pass
C6_Witness ==
    /\ Returned
    /\ SchemeIsP3
    /\ ~UseRadLogic
    /\ "mie_for_ice" \notin DOMAIN args.kw
    /\ \E i \in Positions(MomentCalculators) : ~log[i].is_conv
    /\ \E i \in Positions(MomentCalculators) : log[i].is_conv

-----------------------------------------------------------------------------
(* C7 *)

\* C7, as claimed: a call with do_classify and subcol_gen_only, in which no
\* moment is computed, does not return the model as if complete.
C7_ClassifyWithoutMomentsFails ==
    (Called /\ args.do_classify /\ args.subcol_gen_only) => ~Returned

-----------------------------------------------------------------------------
(* C8 *)

UnstackOps == {"unstack_time_lat_lon"}

\* the last operation of the call is the unstacking
UnstackIsLast == Len(log) >= 1 /\ log[Len(log)].op \in UnstackOps

\* C8, as claimed: a call that returns a model with a stacked-dimension
\* marker has unstacked it, as its last operation, whatever the flags.
C8_UnstackWheneverMarked ==
    (Returned /\ entry_model.stacked_time_dim # None) => UnstackIsLast

\* C8, amended: a call with unstack_dims that returns a model with a
\* stacked-dimension marker has unstacked it, once, as its last operation.
C8_UnstackLastWhenRequested ==
    (Returned /\ entry_model.stacked_time_dim # None /\ args.unstack_dims) =>
        /\ UnstackIsLast
        /\ Cardinality(Positions(UnstackOps)) = 1
        /\ ~model.stacked

\* C8, witness: the unstacking came last, after the finalize step
C8_Witness ==
    /\ Returned
    /\ args.unstack_dims
    /\ entry_model.stacked_time_dim # None
    /\ Len(log) >= 2
    /\ log[Len(log)].op \in UnstackOps
    /\ log[Len(log) - 1].op = "finalize_subcol_fields"

-----------------------------------------------------------------------------
(* C9 *)

\* the messages of make_simulated_data that are about the unstacking
UnstackMessages == {"Unstacking the stacked dimension"}

\* C9, as claimed: a call with unstack_dims on a model without
\* stacked-dimension marker returns, has not unstacked anything, and has
\* printed a notice about it.
C9_NoticeWhenNothingToUnstack ==
    (Returned /\ args.unstack_dims /\ entry_model.stacked_time_dim = None) =>
        /\ ~Invoked(UnstackOps)
        /\ model.stacked = entry_model.stacked
        /\ \E i \in 1..Len(stdout) : stdout[i] \in UnstackMessages

-----------------------------------------------------------------------------
(* C10 *)

FinalizeOps == {"finalize_subcol_fields"}

\* convert_zeros_to_nan as the call has it: the option, False by default
ConvertZerosToNan == Pop(args.kw, "convert_zeros_to_nan", FALSE)

\* C10: finalize_subcol_fields is called at most once in a call, only with
\* finalize_fields, and exactly once when such a call returns; nothing but
\* the unstacking follows it and the unstacking never precedes it; every
\* classifier is given the caller's convert_zeros_to_nan, so that with
\* neither finalize_fields nor convert_zeros_to_nan no operation is asked to
\* convert zeros.
C10_FinalizeOnceAndLast ==
    Called =>
        /\ Cardinality(Positions(FinalizeOps)) <= 1
        /\ ~args.finalize_fields => ~Invoked(FinalizeOps)
        /\ (Returned /\ args.finalize_fields) => Invoked(FinalizeOps)
        /\ \A f \in Positions(FinalizeOps) : \A i \in 1..Len(log) :
            /\ i < f => log[i].op \notin UnstackOps
            /\ i > f => log[i].op \in UnstackOps
        /\ \A i \in Positions(ClassifierOps) :
            log[i].convert_zeros_to_nan = ConvertZerosToNan
        /\ (~args.finalize_fields /\ ~ConvertZerosToNan) =>
            \A i \in 1..Len(log) :
                /\ log[i].op \notin FinalizeOps
                /\ "convert_zeros_to_nan" \in DOMAIN log[i]
                     => ~log[i].convert_zeros_to_nan

\* C10, witness: a call classified, finalized and then unstacked
C10_Witness ==
    /\ Returned
    /\ args.finalize_fields
    /\ Invoked(ClassifierOps)
    /\ Len(log) >= 3
    /\ log[Len(log)].op \in UnstackOps
    /\ log[Len(log) - 1].op \in FinalizeOps
    /\ log[Len(log) - 2].op \in ClassifierOps

-----------------------------------------------------------------------------
(* C11 *)

\* the positions of the log holding a call that failed
FailedPositions == {i \in 1..Len(log) : "failed" \in DOMAIN log[i]}

\* C11: a call made by make_simulated_data that fails, by itself or by one
\* of its parallel chunks, ends the call of make_simulated_data with the
\* exception: the failed call is the last call made, none is made after it,
\* finalize and unstack included, and the model is never returned.
C11_StageFailureAbortsCall ==
    /\ \A i \in FailedPositions :
        /\ i = Len(log)
        /\ pc = "raised"
        /\ raised \in StageExceptions
    /\ raised \in StageExceptions =>
        /\ FailedPositions = {Len(log)}
        /\ pc = "raised"
        /\ ~ENABLED NextFail

\* C11, witness: a chunk of the convective moment pass failed after the
\* stratiform pass had been made
C11_Witness ==
    /\ pc = "raised"
    /\ raised = "ChunkError"
    /\ Len(log) >= 2
    /\ log[Len(log)].op \in MomentCalculators
    /\ "failed" \in DOMAIN log[Len(log)]
    /\ args.finalize_fields
    /\ args.unstack_dims

-----------------------------------------------------------------------------
(* C13 *)

\* the positions of the log holding a call made for the convective regime
ConvectivePositions ==
    {i \in 1..Len(log) : "is_conv" \in DOMAIN log[i] /\ log[i].is_conv}

\* the operations called once per regime
RegimeOps ==
    {"set_precip_sub_col_frac", "set_q_n", "calc_radar_moments",
     "calc_lidar_moments"}

\* C13: without process_conv on the model, set_convective_sub_col_frac is
\* never called and no call is made with is_conv true.  With process_conv,
\* every call made with is_conv true comes right after the call of the same
\* operation (for set_q_n: and of the same hydrometeor class) with is_conv
\* false, and a call that returns has made the convective calls: the
\* convective fraction of every class, the convective precipitation
\* fraction and set_q_n of every class when the subcolumns were generated,
\* the convective moment pass when a simulator was run.
C13_ConvectiveIffProcessConv ==
    /\ ~model.process_conv =>
        /\ ~Invoked({"set_convective_sub_col_frac"})
        /\ ConvectivePositions = {}
    /\ model.process_conv =>
        /\ \A i \in ConvectivePositions :
            /\ log[i].op \in RegimeOps
            /\ i > 1
            /\ log[i - 1].op = log[i].op
            /\ ~log[i - 1].is_conv
            /\ log[i].op = "set_q_n" => log[i - 1].hyd_type = log[i].hyd_type
        /\ (Returned /\ ~args.skip_subcol_gen) =>
            /\ \A h \in 1..Len(model.conv_frac_names) :
                /\ \E i \in Positions({"set_convective_sub_col_frac"}) :
                    log[i].hyd_type = model.conv_frac_names[h]
                /\ \E i \in Positions({"set_q_n"}) \cap ConvectivePositions :
                    log[i].hyd_type = model.conv_frac_names[h]
            /\ Positions({"set_precip_sub_col_frac"}) \cap ConvectivePositions # {}
        /\ (Returned /\ ~args.subcol_gen_only) =>
            Positions(MomentCalculators) \cap ConvectivePositions # {}

\* C13, witness: a call on a model with process_conv generated the
\* subcolumns, ran a simulator and returned
C13_Witness ==
    /\ Returned
    /\ model.process_conv
    /\ ~args.skip_subcol_gen
    /\ ~args.subcol_gen_only
    /\ Invoked({"set_convective_sub_col_frac"})
    /\ Cardinality(ConvectivePositions) >= 3

-----------------------------------------------------------------------------
(* C14 *)

\* the hydrometeor classes that are cloud only
CloudOnly == {"cl", "ci"}

\* l lists, once each, the classes of hyd that are not cloud only
ListsPrecipOf(l, hyd) ==
    /\ \A k \in 1..Len(l) : l[k] \notin CloudOnly
    /\ \A k \in 1..Len(l) : \E h \in 1..Len(hyd) : hyd[h] = l[k]
    /\ \A h \in 1..Len(hyd) :
        hyd[h] \notin CloudOnly => \E k \in 1..Len(l) : l[k] = hyd[h]
    /\ \A k1, k2 \in 1..Len(l) : l[k1] = l[k2] => k1 = k2

\* C14, as claimed: every set_precip_sub_col_frac call, stratiform or
\* convective, is given a precip_types list that is the model's hydrometeor
\* classes without "cl" and "ci".
C14_EveryPrecipCallGivenPrecipTypes ==
    \A i \in Positions({"set_precip_sub_col_frac"}) :
        /\ "precip_types" \in DOMAIN log[i]
        /\ ListsPrecipOf(log[i].precip_types, model.conv_frac_names)

\* C14, amended: the stratiform set_precip_sub_col_frac call is given a
\* precip_types list that is the model's hydrometeor classes without "cl"
\* and "ci"; the convective call is given no precip_types argument.
C14_StratiformPrecipCallGivenPrecipTypes ==
    \A i \in Positions({"set_precip_sub_col_frac"}) :
        IF log[i].is_conv
        THEN "precip_types" \notin DOMAIN log[i]
        ELSE /\ "precip_types" \in DOMAIN log[i]
             /\ ListsPrecipOf(log[i].precip_types, model.conv_frac_names)

\* C14, witness: both precipitation fraction calls were made on a model that
\* has the class "cl"
C14_Witness ==
    /\ \E h \in 1..Len(model.conv_frac_names) : model.conv_frac_names[h] = "cl"
    /\ \E i, j \in Positions({"set_precip_sub_col_frac"}) :
        log[i].is_conv /\ ~log[j].is_conv

-----------------------------------------------------------------------------
(* C15 *)

\* the set_q_n calls of the log made for a class and a regime
SetQNCalls(hyd_type, is_conv) ==
    {i \in Positions({"set_q_n"}) :
        log[i].hyd_type = hyd_type /\ log[i].is_conv = is_conv}

\* C15: a call that does not skip the subcolumn generation and has come to
\* the simulators has called set_q_n exactly once for every hydrometeor
\* class in the stratiform regime, exactly once for every class in the
\* convective regime when the model has process_conv and never in it
\* otherwise; at any time no pair was served twice, and qc_flag is true in
\* the call of class "cl" with is_conv false and in no other.
C15_SetQNOncePerClassAndRegime ==
    /\ \A i \in Positions({"set_q_n"}) :
        /\ Cardinality(SetQNCalls(log[i].hyd_type, log[i].is_conv)) = 1
        /\ log[i].qc_flag = (log[i].hyd_type = "cl" /\ ~log[i].is_conv)
        /\ log[i].is_conv => model.process_conv
        /\ \E h \in 1..Len(model.conv_frac_names) :
            model.conv_frac_names[h] = log[i].hyd_type
    /\ (Called /\ ~args.skip_subcol_gen
          /\ pc \in SimulatorPath \cup ReturnPath \cup {"simulator", "raised"}) =>
        \A h \in 1..Len(model.conv_frac_names) :
            /\ Cardinality(SetQNCalls(model.conv_frac_names[h], FALSE)) = 1
            /\ Cardinality(SetQNCalls(model.conv_frac_names[h], TRUE))
                 = IF model.process_conv THEN 1 ELSE 0
    /\ args.skip_subcol_gen => ~Invoked({"set_q_n"})

\* C15, witness: set_q_n was called for "cl" in both regimes
C15_Witness ==
    /\ pc = "simulator"
    /\ SetQNCalls("cl", FALSE) # {}
    /\ SetQNCalls("cl", TRUE) # {}

-----------------------------------------------------------------------------
(* C16 *)

\* the caller gave a mie_for_ice value
MieGiven == "mie_for_ice" \in DOMAIN args.kw

\* C16: every moment calculator call, radar or lidar, is given the caller's
\* mie_for_ice when the caller gave one, in both regimes; when the caller
\* gave none, use_rad_logic is false and the scheme is not "p3", the
\* stratiform pass is given True and the convective pass False.
C16_MieForIcePerRegime ==
    \A i \in Positions(MomentCalculators) :
        /\ MieGiven => log[i].mie_for_ice = args.kw["mie_for_ice"]
        /\ (~MieGiven /\ ~UseRadLogic /\ ~SchemeIsP3) =>
            log[i].mie_for_ice = ~log[i].is_conv

\* C16, witness: a lidar call without mie_for_ice, with use_rad_logic false,
\* on a model that is not "p3" made both passes
C16_Witness ==
    /\ ~MieGiven
    /\ ~UseRadLogic
    /\ ~SchemeIsP3
    /\ \E i, j \in Positions({"calc_lidar_moments"}) :
        /\ log[i].is_conv /\ ~log[i].mie_for_ice
        /\ ~log[j].is_conv /\ log[j].mie_for_ice

-----------------------------------------------------------------------------
(* C17 *)

\* the instrument class make_simulated_data branches on (line 65)
InstClass == Lower(instrument.instrument_class)

\* the operations of the radar branch
RadarOps ==
    {"calc_radar_moments", "calc_radar_Ze_min", "calc_total_reflectivity",
     "radar_classify_phase"}

\* C17: with a radar, calc_radar_Ze_min is called at most once in a call and
\* once in a call that ran the simulator and returned; when it is called the
\* stratiform moment pass and, with process_conv, the convective pass have
\* been made and no moment pass comes after it; it is given the caller's
\* ref_rng, or 1000 when the caller gave none; calc_total_reflectivity is
\* the call right after it and is given detect_mask = True.  With a lidar
\* none of the radar operations is called.
C17_ZeMinOnceBetweenMomentsAndTotal ==
    /\ Cardinality(Positions({"calc_radar_Ze_min"})) <= 1
    /\ Cardinality(Positions({"calc_total_reflectivity"})) <= 1
    /\ \A z \in Positions({"calc_radar_Ze_min"}) :
        /\ \A i \in Positions({"calc_radar_moments"}) : i < z
        /\ \A c \in (IF model.process_conv THEN BOOLEAN ELSE {FALSE}) :
            \E i \in Positions({"calc_radar_moments"}) : log[i].is_conv = c
        /\ log[z].ref_rng = Pop(args.kw, "ref_rng", 1000)
        /\ z < Len(log) => log[z + 1].op = "calc_total_reflectivity"
    /\ \A t \in Positions({"calc_total_reflectivity"}) :
        /\ log[t].detect_mask = TRUE
        /\ t > 1
        /\ log[t - 1].op = "calc_radar_Ze_min"
    /\ (Returned /\ InstClass = "radar" /\ ~args.subcol_gen_only) =>
        /\ Invoked({"calc_radar_Ze_min"})
        /\ Invoked({"calc_total_reflectivity"})
    /\ InstClass # "radar" => ~Invoked(RadarOps)

\* C17, witness: a radar call given a ref_rng, on a model with process_conv,
\* returned after calc_radar_Ze_min and calc_total_reflectivity
C17_Witness ==
    /\ Returned
    /\ InstClass = "radar"
    /\ model.process_conv
    /\ "ref_rng" \in DOMAIN args.kw
    /\ Invoked({"calc_radar_Ze_min"})
    /\ Invoked({"calc_total_reflectivity"})

-----------------------------------------------------------------------------
(* C18 *)

\* the operations of the lidar branch
LidarOps ==
    {"calc_lidar_moments", "calc_total_alpha_beta", "calc_LDR_and_ext",
     "lidar_classify_phase", "lidar_emulate_cosp_phase"}

\* the lidar parameters that can be given per call
LidarParams == {"eta", "ext_OD", "OD_from_sfc"}

\* the lidar parameters an operation of the lidar branch takes
TakesLidarParams(op) ==
    CASE op = "calc_lidar_moments" -> {"eta", "OD_from_sfc"}
      [] op = "calc_total_alpha_beta" -> {"eta", "OD_from_sfc"}
      [] op = "calc_LDR_and_ext" -> {"ext_OD", "OD_from_sfc"}
      [] op = "lidar_emulate_cosp_phase" -> {"eta", "OD_from_sfc"}
      [] OTHER -> {}

\* C18: every call of the lidar branch is given the lidar parameters it
\* takes, each with the caller's value when the caller gave one and with the
\* instrument's value otherwise, so all calls of a run are given the same
\* value; the instrument is as it was constructed.
C18_LidarParamsCallerOrInstrument ==
    /\ \A i \in Positions(LidarOps) :
        /\ TakesLidarParams(log[i].op) = LidarParams \cap DOMAIN log[i]
        /\ \A p \in TakesLidarParams(log[i].op) :
            log[i][p] = IF p \in DOMAIN args.kw THEN args.kw[p] ELSE instrument[p]
    /\ \A i, j \in Positions(LidarOps) :
        \A p \in TakesLidarParams(log[i].op) \cap TakesLidarParams(log[j].op) :
            log[i][p] = log[j][p]
    /\ instrument = MakeInstrument(instrument.instrument_class)

\* C18, witness: a lidar call given its own eta and ext_OD went through
\* both moment passes, the totals and the COSP emulator
C18_Witness ==
    /\ Returned
    /\ {"eta", "ext_OD"} \subseteq DOMAIN args.kw
    /\ args.kw["eta"] # instrument.eta
    /\ model.process_conv
    /\ Invoked({"calc_LDR_and_ext"})
    /\ Invoked({"lidar_emulate_cosp_phase"})

-----------------------------------------------------------------------------
(* C19 *)

\* every call of ops in the log comes before position c, and there is one
AllBefore(ops, c) ==
    \A o \in ops : \E i \in Positions({o}) : i < c

\* C19: no classifier is called without do_classify.  A radar call calls no
\* classifier but radar_classify_phase, at most once, after
\* calc_radar_moments, calc_radar_Ze_min and calc_total_reflectivity.  A
\* lidar call calls no classifier but lidar_classify_phase, after
\* calc_lidar_moments, calc_total_alpha_beta and calc_LDR_and_ext, and
\* lidar_emulate_cosp_phase right after it.  A call with do_classify that
\* ran its simulator and returned has called the classifiers of its class.
C19_ClassifiersOfTheInstrumentAfterItsTotals ==
    /\ ~args.do_classify => ~Invoked(ClassifierOps)
    /\ InstClass \notin {"radar", "lidar"} => ~Invoked(ClassifierOps)
    /\ InstClass = "radar" =>
        /\ \A c \in Positions(ClassifierOps) :
            /\ log[c].op = "radar_classify_phase"
            /\ AllBefore({"calc_radar_moments", "calc_radar_Ze_min",
                          "calc_total_reflectivity"}, c)
        /\ Cardinality(Positions(ClassifierOps)) <= 1
    /\ InstClass = "lidar" =>
        /\ \A c \in Positions(ClassifierOps) :
            /\ log[c].op \in {"lidar_classify_phase", "lidar_emulate_cosp_phase"}
            /\ AllBefore({"calc_lidar_moments", "calc_total_alpha_beta",
                          "calc_LDR_and_ext"}, c)
            /\ log[c].op = "lidar_emulate_cosp_phase" =>
                log[c - 1].op = "lidar_classify_phase"
        /\ Cardinality(Positions(ClassifierOps)) <= 2
    /\ (Returned /\ args.do_classify /\ ~args.subcol_gen_only) =>
        /\ InstClass = "radar" => Invoked({"radar_classify_phase"})
        /\ InstClass = "lidar" =>
            /\ Invoked({"lidar_classify_phase"})
            /\ Invoked({"lidar_emulate_cosp_phase"})

\* C19, witness: a lidar call with do_classify returned after both lidar
\* classifiers
C19_Witness ==
    /\ Returned
    /\ InstClass = "lidar"
    /\ args.do_classify
    /\ Invoked({"lidar_classify_phase"})
    /\ Invoked({"lidar_emulate_cosp_phase"})

-----------------------------------------------------------------------------
(* C20 *)

\* the options make_simulated_data knows by name
RecognisedOptions ==
    {"do_classify", "unstack_dims", "skip_subcol_gen", "finalize_fields",
     "subcol_gen_only", "use_rad_logic", "OD_from_sfc", "parallel", "chunk",
     "convert_zeros_to_nan", "mask_height_rng", "hyd_types", "mie_for_ice",
     "use_empiric_calc", "ref_rng", "ext_OD", "eta"}

\* C20, as claimed: no moment calculator call, radar or lidar, is given an
\* option make_simulated_data knows by name among its extra keyword
\* arguments.
C20_NoRecognisedOptionForwarded ==
    \A i \in Positions(MomentCalculators) :
        DOMAIN log[i].kwargs \cap RecognisedOptions = {}

====
